---- MODULE Spec2Model ----
(***************************************************************************)
(* Multi-runner benchmark pipeline of ABE (benchmark.ts):                  *)
(* runMultiRunnerBenchmark drives runSingleRunner for every selected       *)
(* runner; runSingleRunner drives generation, compileApp, runApp,          *)
(* analyzeApp, stopApp and the workspace cleanup.  Child processes, their  *)
(* event handlers and the timers of runApp and stopApp are modelled per    *)
(* runner position, because they outlive the call that created them.       *)
(* Time is in milliseconds, measured from the start of the current         *)
(* runSingleRunner call.                                                   *)
(***************************************************************************)
EXTENDS Integers, Sequences, FiniteSets, TLC

\* ---- bounds of the model ----
MaxFilter == 1
MaxDur == 1

\* ---- program constants ----
ServeTimeoutMs == 30000
StopGraceMs == 5000

\* Object.keys(RUNNERS), in insertion order
allRunners == <<"sigrid", "claude">>

\* the registry: both runners carry a cleanupWorkspace capability
RUNNERS ==
  [sigrid |-> [id |-> "sigrid", defaultModel |-> "gpt-5", cleanupWorkspace |-> TRUE],
   claude |-> [id |-> "claude", defaultModel |-> "sonnet", cleanupWorkspace |-> TRUE]]

\* the comma-separated items a --filter string may hold (one padded, one unknown)
FilterTokens == {"sigrid", " claude", "bogus"}

\* positions of the runner loop
Slots == 1..(IF MaxFilter > Len(allRunners) THEN MaxFilter ELSE Len(allRunners))

\* positions of the prompt loop of the legacy runBenchmark are Slots as well

\* durations of code generation the environment may produce, in ms
Durs == {1000 * d : d \in 1..MaxDur}

\* duration of every other stage, in ms
StageMs == 1000

\* dev-server urls vite may announce (the port of http://localhost:<port>)
Urls == {5173, 5174}

\* stdout.substring(0, 500): the longest excerpt compileApp keeps on success
MaxExcerpt == 500

\* lengths <<stdout, stderr>> of what an npm command may print
OutputLens == {<<100, 600>>}

VARIABLES
  filter,          \* options.filter, as the items between commas (<<>> is "")
  keepWorkspaces,  \* options.keepWorkspaces
  apiKey,          \* process.env.OPENAI_API_KEY is set
  now,             \* new Date() of the invocation: second and millisecond
  legacyRunner,    \* options.runner of the legacy runBenchmark
  promptsToRun,    \* promptsToRun of the legacy runBenchmark
  runningProcesses,\* runningProcesses of the legacy runBenchmark
  summary,         \* the summary file of the legacy runBenchmark (<<>>: not written)
  pc,              \* position of the single control thread
  runnersToRun,    \* result of parseRunnerFilter
  i,               \* loop index of runMultiRunnerBenchmark (1-based)
  results,         \* results: RunnerBenchmarkResult[]
  benchmarkDir,    \* the benchmark directory: created by mkdir, files copied into it
  metadata,        \* the persisted metadata document (<<>> before it is written)
  elapsed,         \* Date.now() - startTime of the current runSingleRunner
  buildResult,     \* runSingleRunner locals
  compileResult,
  npm,             \* what the current compileApp call found and executed
  runResult,
  analyzeResult,
  serverProcess,   \* 0 is null, k is the child process of position k
  thrown,          \* message of the exception being handled
  ret,             \* <<r>> once runSingleRunner returned r
  ws,              \* workspace directory of each position
  proc,            \* child process spawned by runApp at each position
  ra,              \* closure of each runApp call: latch, timer, promise
  sa,              \* closure of the latest stopApp call on each process
  browser,         \* browser instance of each analyzeApp call
  calls            \* history: what was invoked at each position

vars == <<filter, keepWorkspaces, apiKey, now, legacyRunner, promptsToRun,
          runningProcesses, summary, pc, runnersToRun, i, results, benchmarkDir,
          metadata, elapsed, buildResult, compileResult, npm, runResult,
          analyzeResult, serverProcess, thrown, ret, ws, proc, ra, sa,
          browser, calls>>

legacyVars == <<legacyRunner, promptsToRun, runningProcesses, summary>>
orchVars == <<filter, keepWorkspaces, apiKey, now, legacyVars, runnersToRun, i, results, benchmarkDir,
              metadata>>
localVars == <<buildResult, compileResult, npm, runResult, analyzeResult>>

\* ---------------------------------------------------------------------------
\* values
\* ---------------------------------------------------------------------------
NoBuild == [success |-> FALSE, duration |-> 0, workspaceDir |-> 0]
\* stdout and stderr are the lengths of the excerpts; absent fields are "", 0
NoCompile == [success |-> FALSE, duration |-> 0, error |-> "",
              installNeeded |-> FALSE, stdout |-> 0, stderr |-> 0]
\* hasNodeModules: fs.access(node_modules) succeeded; commands: the npm
\* commands executed, in order
NoNpm == [hasNodeModules |-> FALSE, commands |-> <<>>]
NoRun == [success |-> FALSE, serverUrl |-> 0, process |-> 0, duration |-> 0]
NoAnalyze == [success |-> FALSE, duration |-> 0, screenshotPath |-> <<>>,
              consoleErrors |-> 0, pageErrors |-> 0]

\* st: "none", "running", "failed" (spawn failed, 'error' not yet emitted),
\* "errored", "exited"; killed is ChildProcess.killed; sigs are the signals
\* delivered; dying: a delivered signal will end the process; written and
\* unwritten: the two parts of a stdout line of which only the first has been
\* flushed to the pipe
NoProc == [st |-> "none", killed |-> FALSE, dying |-> FALSE, sigs |-> {},
           written |-> <<>>, unwritten |-> <<>>]
\* firstMatch: the url of the first ready line in what the process has written
\* to stdout (history)
NoRunApp == [promise |-> "none", resolved |-> FALSE, timer |-> "none",
             fired |-> {}, startTime |-> 0, serverUrl |-> 0, duration |-> 0,
             error |-> "", firstMatch |-> 0]
\* waited: ms between the call and the resolution of its promise (history)
NoStopApp == [promise |-> "none", listening |-> FALSE, waited |-> 0]
NoBenchmarkDir == [created |-> FALSE, files |-> {}]
\* per position: how often each operation was invoked, and how each stage ended
\* ("none", "ok", "fail" for a result with success=false, "threw")
NoCalls == [exec |-> 0, gen |-> 0, compile |-> 0, run |-> 0, analyze |-> 0,
            stop |-> 0, stopAwaited |-> 0, cleanup |-> 0,
            genOut |-> "none", compileOut |-> "none", serveOut |-> "none",
            analyzeOut |-> "none", cleanupOut |-> "none", execOut |-> "none",
            copyOut |-> "none"]

\* a RunnerBenchmarkResult; absent optional fields are "", <<>> and 0
RunnerBenchmarkResult(runner, success, error, total, durations, errors, shot, wsd) ==
  [runner |-> runner, model |-> RUNNERS[runner].defaultModel, success |-> success,
   error |-> error, totalDuration |-> total, durations |-> durations,
   errors |-> errors, screenshotPath |-> shot, workspaceDir |-> wsd]

Durations(cg, comp, ss, an) ==
  [codeGeneration |-> cg, compilation |-> comp, serverStartup |-> ss, analysis |-> an]

ErrorCounts(ce, pe) == [consoleErrors |-> ce, pageErrors |-> pe]

\* r.trim() of a filter item
Trim(tok) == IF tok = " claude" THEN "claude" ELSE tok

Includes(seq, x) == \E k \in 1..Len(seq) : seq[k] = x

\* parseRunnerFilter: <<TRUE, runners>> or <<FALSE, <<>>>> when it throws
requested(f) == [k \in 1..Len(f) |-> Trim(f[k])]

\* mutant: unknown ids are dropped instead of rejected
parseRunnerFilter_DropsUnknown(f, all) ==
  IF f = <<>> THEN <<TRUE, all>>
  ELSE <<TRUE, SelectSeq(requested(f), LAMBDA r : Includes(all, r))>>

\* if (!filter) return allRunners; throw if any requested id is unknown
parseRunnerFilter(f, all) ==
  IF f = <<>> THEN <<TRUE, all>>
  ELSE IF \E k \in 1..Len(f) : ~Includes(all, requested(f)[k])
       THEN <<FALSE, <<>>>>
       ELSE <<TRUE, requested(f)>>

\* ---- strings as the sequences of their characters ----
\* s.replace(c, d) for a one-character pattern: the first occurrence only
ReplaceFirst(s, c, d) ==
  IF \E k \in 1..Len(s) : s[k] = c
  THEN LET p == CHOOSE k \in 1..Len(s) : s[k] = c /\ \A j \in 1..(k - 1) : s[j] # c
       IN [s EXCEPT ![p] = d]
  ELSE s

\* s.replace(/c/g, '')
RemoveAll(s, c) == SelectSeq(s, LAMBDA x : x # c)

\* s.replace(/\..+/, ''): everything from the first '.' that has a successor
CutAtDot(s) ==
  IF \E k \in 1..(Len(s) - 1) : s[k] = "."
  THEN LET p == CHOOSE k \in 1..(Len(s) - 1) :
                  s[k] = "." /\ \A j \in 1..(k - 1) : s[j] # "."
       IN SubSeq(s, 1, p - 1)
  ELSE s

\* s.replace(/-/g, (match, offset) => offset < n ? match : ''); offsets count
\* from 0 in s
DropDashesFrom(s, n) ==
  LET F[k \in 0..Len(s)] ==
        IF k = 0 THEN <<>>
        ELSE IF s[k] = "-" /\ ~(k - 1 < n) THEN F[k - 1] ELSE Append(F[k - 1], s[k])
  IN F[Len(s)]

\* s.split(c)[0]
SplitHead(s, c) ==
  IF \E k \in 1..Len(s) : s[k] = c
  THEN LET p == CHOOSE k \in 1..Len(s) : s[k] = c /\ \A j \in 1..(k - 1) : s[j] # c
       IN SubSeq(s, 1, p - 1)
  ELSE s

\* the string made of the characters of s
Str(s) ==
  LET F[k \in 0..Len(s)] == IF k = 0 THEN "" ELSE F[k - 1] \o s[k]
  IN F[Len(s)]

Digit(n) == <<"0", "1", "2", "3", "4", "5", "6", "7", "8", "9">>[n + 1]

\* instants at which an invocation may start, in ascending order: second and
\* millisecond within 2025-01-01T12:00
Clock == <<[s |-> 7, ms |-> 123], [s |-> 9, ms |-> 500], [s |-> 10, ms |-> 0]>>

\* now.toISOString(), e.g. 2025-01-01T12:00:07.123Z
toISOString(t) ==
  <<"2", "0", "2", "5", "-", "0", "1", "-", "0", "1", "T", "1", "2", ":", "0", "0", ":">>
  \o <<Digit(t.s \div 10), Digit(t.s % 10), ".">>
  \o <<Digit(t.ms \div 100), Digit((t.ms \div 10) % 10), Digit(t.ms % 10), "Z">>

\* dateStr of an invocation started at t
dateStr(t) ==
  DropDashesFrom(CutAtDot(RemoveAll(ReplaceFirst(toISOString(t), "T", "-"), ":")), 8)

\* const dateOnly = dateStr.split('-')[0] of copyScreenshot
dateOnly(ds) == SplitHead(ds, "-")

appName == "todo-app"

\* path.join(__dirname, 'benchmarks', dateStr.substring(0, 15), appName)
BenchmarkPath(ds, app) ==
  <<"benchmarks", Str(SubSeq(ds, 1, IF Len(ds) < 15 THEN Len(ds) ELSE 15)), app>>

\* path.basename of a path given as its components
basename(p) == p[Len(p)]

Filters == UNION {[1..n -> FilterTokens] : n \in 0..MaxFilter}

\* a process that has just been started: nothing has run yet
Started ==
  /\ pc = "start"
  /\ promptsToRun = <<>>
  /\ runningProcesses = <<>>
  /\ summary = <<>>
  /\ runnersToRun = <<>>
  /\ i = 1
  /\ results = <<>>
  /\ benchmarkDir = NoBenchmarkDir
  /\ metadata = <<>>
  /\ elapsed = 0
  /\ buildResult = NoBuild
  /\ compileResult = NoCompile
  /\ npm = NoNpm
  /\ runResult = NoRun
  /\ analyzeResult = NoAnalyze
  /\ serverProcess = 0
  /\ thrown = ""
  /\ ret = <<>>
  /\ ws = [k \in Slots |-> "none"]
  /\ proc = [k \in Slots |-> NoProc]
  /\ ra = [k \in Slots |-> NoRunApp]
  /\ sa = [k \in Slots |-> NoStopApp]
  /\ browser = [k \in Slots |-> "none"]
  /\ calls = [k \in Slots |-> NoCalls]

Init ==
  /\ legacyRunner = "sigrid"
  /\ filter \in Filters
  /\ keepWorkspaces \in BOOLEAN
  /\ apiKey \in BOOLEAN
  /\ now = Clock[1]
  /\ Started

\* ---------------------------------------------------------------------------
\* runMultiRunnerBenchmark
\* ---------------------------------------------------------------------------
\* mutant: only successful results are kept
PushResult_OnlySuccess(rs, r) == IF r.success THEN Append(rs, r) ELSE rs

\* results.push(r)
PushResult(rs, r) == Append(rs, r)

\* the synthetic failed result of the per-runner catch
SyntheticResult(runnerId, message) ==
  RunnerBenchmarkResult(runnerId, FALSE, message, 0, Durations(0, 0, 0, 0),
                        ErrorCounts(0, 0), <<>>, 0)

\* copyScreenshot: the file name written into the benchmark directory
copyScreenshot(runnerId, ds) == runnerId \o "_" \o Str(dateOnly(ds)) \o ".png"

\* options parsing, parseRunnerFilter and mkdir of the benchmark directory
StartBenchmark ==
  /\ pc = "start"
  /\ LET parsed == parseRunnerFilter(filter, allRunners) IN
       IF parsed[1]
       THEN /\ runnersToRun' = parsed[2]
            /\ benchmarkDir' = [benchmarkDir EXCEPT !.created = TRUE]
            /\ pc' = "loop"
       ELSE /\ pc' = "configError"
            /\ UNCHANGED <<runnersToRun, benchmarkDir>>
  /\ UNCHANGED <<filter, keepWorkspaces, apiKey, now, legacyVars, i, results, metadata, elapsed, localVars,
                 serverProcess, thrown, ret, ws, proc, ra, sa, browser, calls>>

\* loop head with i < runnersToRun.length: runSingleRunner is called and runs
\* up to its try block
InvokeRunner ==
  /\ pc = "loop"
  /\ i <= Len(runnersToRun)
  /\ pc' = "generate"
  /\ elapsed' = 0
  /\ serverProcess' = 0
  /\ thrown' = ""
  /\ ret' = <<>>
  /\ buildResult' = NoBuild
  /\ compileResult' = NoCompile
  /\ npm' = NoNpm
  /\ runResult' = NoRun
  /\ analyzeResult' = NoAnalyze
  /\ calls' = [calls EXCEPT ![i].exec = @ + 1]
  /\ UNCHANGED <<orchVars, ws, proc, ra, sa, browser>>

\* the awaited runSingleRunner rejects: only a fault raised outside its
\* try block can do that; the loop's catch is what receives it
RunnerThrows ==
  /\ pc = "generate"
  /\ pc' = "orch_catch"
  /\ thrown' = "executor fault"
  /\ calls' = [calls EXCEPT ![i].execOut = "threw"]
  /\ UNCHANGED <<orchVars, elapsed, localVars, serverProcess, ret, ws, proc, ra,
                 sa, browser>>

\* mutant: a failed copy reaches the per-runner catch
OrchReceive_CopyFailureThrows ==
  /\ pc = "returned"
  /\ results' = PushResult(results, ret[1])
  /\ IF ret[1].success /\ ret[1].screenshotPath # <<>>
     THEN \E copied \in BOOLEAN :
            /\ benchmarkDir' =
                 IF copied
                 THEN [benchmarkDir EXCEPT
                         !.files = @ \cup {copyScreenshot(runnersToRun[i], dateStr(now))}]
                 ELSE benchmarkDir
            /\ calls' = [calls EXCEPT ![i].copyOut = IF copied THEN "ok" ELSE "threw"]
            /\ i' = IF copied THEN i + 1 ELSE i
            /\ pc' = IF copied THEN "loop" ELSE "orch_catch"
     ELSE /\ i' = i + 1
          /\ pc' = "loop"
          /\ UNCHANGED <<benchmarkDir, calls>>
  /\ buildResult' = NoBuild
  /\ compileResult' = NoCompile
  /\ npm' = NoNpm
  /\ runResult' = NoRun
  /\ analyzeResult' = NoAnalyze
  /\ serverProcess' = 0
  /\ elapsed' = 0
  /\ UNCHANGED <<filter, keepWorkspaces, apiKey, now, legacyVars, runnersToRun, metadata,
                 thrown, ret, ws, proc, ra, sa, browser>>

\* the try body after the await: push, then copy the screenshot (a failed copy
\* is a warning).  The call of runSingleRunner is over: its locals and its
\* clock are gone
OrchReceive ==
  /\ pc = "returned"
  /\ results' = PushResult(results, ret[1])
  /\ IF ret[1].success /\ ret[1].screenshotPath # <<>>
     THEN \E copied \in BOOLEAN :
            /\ benchmarkDir' =
                 IF copied
                 THEN [benchmarkDir EXCEPT
                         !.files = @ \cup {copyScreenshot(runnersToRun[i], dateStr(now))}]
                 ELSE benchmarkDir
            /\ calls' = [calls EXCEPT ![i].copyOut = IF copied THEN "ok" ELSE "threw"]
     ELSE UNCHANGED <<benchmarkDir, calls>>
  /\ i' = i + 1
  /\ pc' = "loop"
  /\ buildResult' = NoBuild
  /\ compileResult' = NoCompile
  /\ npm' = NoNpm
  /\ runResult' = NoRun
  /\ analyzeResult' = NoAnalyze
  /\ serverProcess' = 0
  /\ elapsed' = 0
  /\ UNCHANGED <<filter, keepWorkspaces, apiKey, now, legacyVars, runnersToRun, metadata,
                 thrown, ret, ws, proc, ra, sa, browser>>

\* mutant: the exception of one runner ends the loop
OrchCatch_Abort ==
  /\ pc = "orch_catch"
  /\ results' = PushResult(results, SyntheticResult(runnersToRun[i], thrown))
  /\ i' = Len(runnersToRun) + 1
  /\ pc' = "loop"
  /\ UNCHANGED <<filter, keepWorkspaces, apiKey, now, legacyVars, runnersToRun, benchmarkDir, metadata,
                 elapsed, localVars, serverProcess, thrown, ret, ws, proc, ra,
                 sa, browser, calls>>

\* the per-runner catch: a synthetic failed result, then the next runner
OrchCatch ==
  /\ pc = "orch_catch"
  /\ results' = PushResult(results, SyntheticResult(runnersToRun[i], thrown))
  /\ i' = i + 1
  /\ pc' = "loop"
  /\ UNCHANGED <<filter, keepWorkspaces, apiKey, now, legacyVars, runnersToRun, benchmarkDir, metadata,
                 elapsed, localVars, serverProcess, thrown, ret, ws, proc, ra,
                 sa, browser, calls>>

\* mutant: the filter keeps every result
Filter_All(rs, want) == rs

\* results.filter(r => r.success) and its complement
Filter(rs, want) ==
  LET F[k \in 0..Len(rs)] ==
        IF k = 0 THEN <<>>
        ELSE IF rs[k].success = want THEN Append(F[k - 1], rs[k]) ELSE F[k - 1]
  IN F[Len(rs)]

\* mutant: on a tie the later runner wins
ReduceMin_LastWins(rs) ==
  LET M[k \in 1..Len(rs)] ==
        IF k = 1 THEN rs[1]
        ELSE IF rs[k].totalDuration <= M[k - 1].totalDuration THEN rs[k] ELSE M[k - 1]
  IN M[Len(rs)]

\* successfulRunners.reduce((min, r) => r.totalDuration < min.totalDuration ? r : min)
ReduceMin(rs) ==
  LET M[k \in 1..Len(rs)] ==
        IF k = 1 THEN rs[1]
        ELSE IF rs[k].totalDuration < M[k - 1].totalDuration THEN rs[k] ELSE M[k - 1]
  IN M[Len(rs)]

\* mutant: failedRunners counts every result
Summary_FailedCountsAll(rs) ==
  LET successfulRunners == Filter(rs, TRUE)
  IN [totalRunners |-> Len(rs),
      successfulRunners |-> Len(successfulRunners),
      failedRunners |-> Len(rs),
      fastestRunner |-> IF Len(successfulRunners) > 0
                        THEN <<ReduceMin(successfulRunners).runner>> ELSE <<>>,
      fastestTime |-> IF Len(successfulRunners) > 0
                      THEN <<ReduceMin(successfulRunners).totalDuration>> ELSE <<>>]

\* the summary object; null is <<>>
Summary(rs) ==
  LET successfulRunners == Filter(rs, TRUE)
      failedRunners == Filter(rs, FALSE)
  IN [totalRunners |-> Len(rs),
      successfulRunners |-> Len(successfulRunners),
      failedRunners |-> Len(failedRunners),
      fastestRunner |-> IF Len(successfulRunners) > 0
                        THEN <<ReduceMin(successfulRunners).runner>> ELSE <<>>,
      fastestTime |-> IF Len(successfulRunners) > 0
                      THEN <<ReduceMin(successfulRunners).totalDuration>> ELSE <<>>]

\* metadata.runners: each result with screenshotPath replaced by its basename
MetadataRunners(rs) ==
  [k \in 1..Len(rs) |->
     [rs[k] EXCEPT !.screenshotPath = IF @ # <<>> THEN <<basename(@)>> ELSE <<>>]]

\* loop exit: summary, metadata document, writeFile
Summarize ==
  /\ pc = "loop"
  /\ i > Len(runnersToRun)
  /\ metadata' = <<[timestamp |-> Str(toISOString(now)),
                    dateStr |-> Str(dateStr(now)),
                    runners |-> MetadataRunners(results),
                    summary |-> Summary(results)]>>
  /\ pc' = "done"
  /\ UNCHANGED <<filter, keepWorkspaces, apiKey, now, legacyVars, runnersToRun, i, results, benchmarkDir,
                 elapsed, localVars, serverProcess, thrown, ret, ws, proc, ra,
                 sa, browser, calls>>

\* ---------------------------------------------------------------------------
\* main
\* ---------------------------------------------------------------------------
\* mutant: failed runners do not count
hasFailures_Never(md) == FALSE

\* const hasFailures = metadata.summary.failedRunners > 0
hasFailures(md) == md.summary.failedRunners > 0

\* resolvePrompt rejects: process.exit(1) before runMultiRunnerBenchmark
MainPromptNotFound ==
  /\ pc = "start"
  /\ pc' = "exit1"
  /\ UNCHANGED <<orchVars, elapsed, localVars, serverProcess, thrown, ret, ws, proc,
                 ra, sa, browser, calls>>

\* the filter is invalid: process.exit(1), by the validation of main or by its
\* catch of what runMultiRunnerBenchmark throws
MainConfigError ==
  /\ pc = "configError"
  /\ pc' = "exit1"
  /\ UNCHANGED <<orchVars, elapsed, localVars, serverProcess, thrown, ret, ws, proc,
                 ra, sa, browser, calls>>

\* runMultiRunnerBenchmark returned: process.exit(hasFailures ? 1 : 0)
MainExit ==
  /\ pc = "done"
  /\ pc' = IF hasFailures(metadata[1]) THEN "exit1" ELSE "exit0"
  /\ UNCHANGED <<orchVars, elapsed, localVars, serverProcess, thrown, ret, ws, proc,
                 ra, sa, browser, calls>>

\* ---------------------------------------------------------------------------
\* runSingleRunner: generation and compile
\* ---------------------------------------------------------------------------
GenOutcomes == {"ok", "buildFail", "createThrows", "populateThrows"}

\* the runners whose generation calls the OpenAI API: the sigrid client is
\* initialised at module load only if OPENAI_API_KEY is set
ApiBacked == {"sigrid"}

\* what generation can do for a runner: without an initialised client the
\* backend call of an API-backed runner fails
GenOutcomesOf(runnerId, key) ==
  IF runnerId \in ApiBacked /\ ~key THEN GenOutcomes \ {"ok"} ELSE GenOutcomes

\* the runner adapter's runBenchmark: it rethrows a failure of workspace
\* creation or population and returns build.success=false when the build fails
runBenchmark(out, d, dir) ==
  [threw |-> out \in {"createThrows", "populateThrows"},
   created |-> out # "createThrows",
   message |-> IF out = "createThrows" THEN "workspace creation failed"
               ELSE "workspace population failed",
   result |-> [success |-> out = "ok", duration |-> d, workspaceDir |-> dir]]

\* if (!buildResult.build.success)
GenerationFailed(br) == ~br.success

\* mutant: the compile result is not looked at
CompilationFailed_Never(cr) == FALSE

\* if (!compileResult.success)
CompilationFailed(cr) == ~cr.success

\* if (!runResult.success)
ServeFailed(rr) == ~rr.success

GenFailedResult(runnerId, total, br) ==
  RunnerBenchmarkResult(runnerId, FALSE, "Code generation failed", total,
                        Durations(br.duration, 0, 0, 0), ErrorCounts(0, 0), <<>>, 0)

CompileFailedResult(runnerId, total, br, cr) ==
  RunnerBenchmarkResult(runnerId, FALSE, "Compilation failed", total,
                        Durations(br.duration, cr.duration, 0, 0),
                        ErrorCounts(0, 0), <<>>, br.workspaceDir)

ServeFailedResult(runnerId, total, br, cr, rr) ==
  RunnerBenchmarkResult(runnerId, FALSE, "Server startup failed", total,
                        Durations(br.duration, cr.duration, rr.duration, 0),
                        ErrorCounts(0, 0), <<>>, br.workspaceDir)

SuccessResult(runnerId, total, br, cr, rr, ar) ==
  RunnerBenchmarkResult(runnerId, TRUE, "", total,
                        Durations(br.duration, cr.duration, rr.duration, ar.duration),
                        ErrorCounts(ar.consoleErrors, ar.pageErrors),
                        ar.screenshotPath, br.workspaceDir)

CatchResult(runnerId, total, message) ==
  RunnerBenchmarkResult(runnerId, FALSE, message, total, Durations(0, 0, 0, 0),
                        ErrorCounts(0, 0), <<>>, 0)

\* step 1: await runnerConfig.runBenchmark(prompt, model)
Generate ==
  /\ pc = "generate"
  /\ \E out \in GenOutcomesOf(runnersToRun[i], apiKey) :
     \E d \in (IF out \in {"createThrows", "populateThrows"} THEN {StageMs} ELSE Durs) :
       LET g == runBenchmark(out, d, i) IN
       /\ ws' = IF g.created THEN [ws EXCEPT ![i] = "exists"] ELSE ws
       /\ elapsed' = elapsed + d
       /\ calls' = [calls EXCEPT ![i].gen = @ + 1,
                                 ![i].genOut = IF g.threw THEN "threw"
                                               ELSE IF g.result.success THEN "ok"
                                               ELSE "fail",
                                 ![i].execOut = IF ~g.threw /\ GenerationFailed(g.result)
                                                THEN "returned" ELSE @]
       /\ IF g.threw
          THEN /\ thrown' = g.message
               /\ pc' = "exec_catch"
               /\ UNCHANGED <<buildResult, ret>>
          ELSE /\ buildResult' = g.result
               /\ UNCHANGED thrown
               /\ IF GenerationFailed(g.result)
                  THEN /\ ret' = <<GenFailedResult(runnersToRun[i], elapsed', g.result)>>
                       /\ pc' = "returned"
                  ELSE /\ pc' = "compile"
                       /\ UNCHANGED ret
  /\ UNCHANGED <<orchVars, compileResult, npm, runResult, analyzeResult, serverProcess,
                 proc, ra, sa, browser>>

\* what the npm commands of a workspace do when they are run: both succeed,
\* `npm install` fails, `npm run build` fails (a non-zero exit and a timeout
\* both reject execAsync)
CompileOutcomes == {"ok", "installFail", "buildFail"}

\* s.substring(0, n).length for a string of length len
substring(len, n) == IF len < n THEN len ELSE n

\* mutant: the build is run although the install failed
compileApp_BuildsAfterFailedInstall(hasNodeModules, out, d, lens) ==
  [commands |-> IF hasNodeModules THEN <<"npm run build">>
                ELSE <<"npm install", "npm run build">>,
   result |-> IF out = "ok"
              THEN [success |-> TRUE, duration |-> d, error |-> "",
                    installNeeded |-> ~hasNodeModules,
                    stdout |-> substring(lens[1], MaxExcerpt),
                    stderr |-> substring(lens[2], MaxExcerpt)]
              ELSE [success |-> FALSE, duration |-> d,
                    error |-> IF out = "installFail" /\ ~hasNodeModules
                              THEN "npm install failed" ELSE "Command failed",
                    installNeeded |-> FALSE, stdout |-> lens[1], stderr |-> lens[2]]]

\* compileApp: the commands it executes and the CompileResult it returns;
\* every failure is returned as success=false, nothing is thrown.
\* hasNodeModules: fs.access(node_modules) succeeds; lens: <<stdout, stderr>>
\* lengths of the failing or of the last command
compileApp(hasNodeModules, out, d, lens) ==
  LET installNeeded == ~hasNodeModules IN
  IF installNeeded /\ out = "installFail"
  THEN [commands |-> <<"npm install">>,
        result |-> [success |-> FALSE, duration |-> d, error |-> "npm install failed",
                    installNeeded |-> FALSE, stdout |-> 0, stderr |-> lens[2]]]
  ELSE [commands |-> IF installNeeded THEN <<"npm install", "npm run build">>
                     ELSE <<"npm run build">>,
        result |-> IF out = "buildFail"
                   THEN [success |-> FALSE, duration |-> d, error |-> "Command failed",
                         installNeeded |-> FALSE, stdout |-> lens[1],
                         stderr |-> lens[2]]
                   ELSE [success |-> TRUE, duration |-> d, error |-> "",
                         installNeeded |-> installNeeded,
                         stdout |-> substring(lens[1], MaxExcerpt),
                         stderr |-> substring(lens[2], MaxExcerpt)]]

\* step 2: await compileApp(buildResult.workspaceDir)
Compile ==
  /\ pc = "compile"
  /\ \E hasNodeModules \in BOOLEAN, out \in CompileOutcomes, d \in {StageMs},
        lens \in OutputLens :
       LET c == compileApp(hasNodeModules, out, d, lens)
           cr == c.result IN
       /\ compileResult' = cr
       /\ npm' = [hasNodeModules |-> hasNodeModules, commands |-> c.commands]
       /\ elapsed' = elapsed + d
       /\ calls' = [calls EXCEPT ![i].compile = @ + 1,
                                 ![i].compileOut = IF cr.success THEN "ok" ELSE "fail",
                                 ![i].execOut = IF CompilationFailed(cr)
                                                THEN "returned" ELSE @]
       /\ IF CompilationFailed(cr)
          THEN /\ ret' = <<CompileFailedResult(runnersToRun[i], elapsed', buildResult, cr)>>
               /\ pc' = "returned"
          ELSE /\ pc' = "serve"
               /\ UNCHANGED ret
  /\ UNCHANGED <<orchVars, buildResult, runResult, analyzeResult, serverProcess,
                 thrown, ws, proc, ra, sa, browser>>

\* ---------------------------------------------------------------------------
\* child processes, runApp, stopApp
\* ---------------------------------------------------------------------------
\* ChildProcess.kill(sig): the signal is delivered only to a live process, and
\* killed records that a signal was delivered, not that the process ended.
\* honours: the process ends on SIGTERM (SIGKILL cannot be ignored)
Kill(p, sig, honours) ==
  IF p.st = "running"
  THEN [p EXCEPT !.killed = TRUE, !.sigs = @ \cup {sig},
                 !.dying = @ \/ sig = "SIGKILL" \/ honours]
  ELSE p

\* promise settlement: only the first resolve or reject takes effect
Resolve(r, url, d) ==
  IF r.promise = "pending"
  THEN [r EXCEPT !.promise = "fulfilled", !.serverUrl = url, !.duration = d]
  ELSE r

Reject(r, message) ==
  IF r.promise = "pending"
  THEN [r EXCEPT !.promise = "rejected", !.error = message]
  ELSE r

\* mutant: the timer is never cancelled
ClearTimeout_Never(r) == r

\* clearTimeout(timeout)
ClearTimeout(r) == IF r.timer = "armed" THEN [r EXCEPT !.timer = "cleared"] ELSE r

\* the control thread is suspended in the await of runApp at position k and
\* the promise is not settled yet (the clock of the runner stops at the
\* settlement: the await resumes before any other event is handled)
AwaitingServe(k) ==
  pc \in {"serve_wait", "l_serve_wait"} /\ k = i /\ ra[k].promise = "pending"

\* the control thread is suspended in an await of stopApp on process k
AwaitingStop(k) ==
  pc \in {"stop_wait", "catch_stop_wait", "l_stop_wait"} /\ k = serverProcess

\* mutant: every matching chunk settles the stage anew
OnMatch_LastWins(r, url, d) ==
  [ClearTimeout(r) EXCEPT !.resolved = TRUE, !.fired = @ \cup {"match"},
                          !.promise = "fulfilled", !.serverUrl = url,
                          !.duration = d]

\* resolution branch of the stdout handler (a ready-pattern match)
OnMatch(r, url, d) ==
  IF ~r.resolved
  THEN Resolve(ClearTimeout([r EXCEPT !.resolved = TRUE, !.fired = @ \cup {"match"}]),
               url, d)
  ELSE r

\* mutant: the timer callback reports a started server
OnTimeout_Fulfils(r) ==
  IF ~r.resolved
  THEN Resolve([r EXCEPT !.timer = "fired", !.fired = @ \cup {"timeout"}], 0,
               ServeTimeoutMs)
  ELSE [r EXCEPT !.timer = "fired"]

\* the 30 s timer callback, without its child.kill()
OnTimeout(r) ==
  IF ~r.resolved
  THEN Reject([r EXCEPT !.timer = "fired", !.fired = @ \cup {"timeout"}],
              "Server startup timeout (30s)")
  ELSE [r EXCEPT !.timer = "fired"]

\* child.on('error')
OnError(r) ==
  IF ~r.resolved
  THEN Reject(ClearTimeout([r EXCEPT !.resolved = TRUE, !.fired = @ \cup {"error"}]),
              "spawn error")
  ELSE r

\* mutant: a premature exit is reported as a startup timeout
OnExit_TimeoutError(r) ==
  IF ~r.resolved
  THEN Reject(ClearTimeout([r EXCEPT !.resolved = TRUE, !.fired = @ \cup {"exit"}]),
              "Server startup timeout (30s)")
  ELSE r

\* child.on('exit') of runApp
OnExit(r) ==
  IF ~r.resolved
  THEN Reject(ClearTimeout([r EXCEPT !.resolved = TRUE, !.fired = @ \cup {"exit"}]),
              "Server exited with code")
  ELSE r

\* text on stdout is a sequence of tokens: "Local:", a run of white space, an
\* ANSI colour sequence, the url up to its colon, and the digits of the port
Ansi == "ESC[1m"
Ports == {ToString(u) : u \in Urls}

\* the line vite prints when it listens on url
ReadyLine(url) == <<"Local:", " ", Ansi, "http://localhost:", ToString(url)>>

\* text.replace(/\x1B\[[0-9;]*[mGKHF]/g, '')
StripAnsi(text) == SelectSeq(text, LAMBDA t : t # Ansi)

\* cleanText.match(/Local:\s+(http:\/\/localhost:\d+)/i): the url of the first
\* match in this text, 0 for null
match(cleanText) ==
  LET hit(p) == /\ cleanText[p] = "Local:"
                /\ cleanText[p + 1] = " "
                /\ cleanText[p + 2] = "http://localhost:"
                /\ cleanText[p + 3] \in Ports
      hits == {p \in 1..(Len(cleanText) - 3) : hit(p)}
  IN IF hits = {} THEN 0
     ELSE LET p == CHOOSE q \in hits : \A o \in hits : q <= o
          IN CHOOSE u \in Urls : ToString(u) = cleanText[p + 3]

\* child.stdout.on('data'): the pattern is looked for in the chunk received
OnData(r, text, d) ==
  LET localMatch == match(StripAnsi(text))
  IN IF localMatch # 0 THEN OnMatch(r, localMatch, d) ELSE r

\* step 3, first half: runApp spawns the dev server, arms the timer and
\* registers its handlers
RunAppSpawn ==
  /\ pc = "serve"
  /\ \E spawned \in BOOLEAN :
       proc' = [proc EXCEPT ![i] = [NoProc EXCEPT
                                      !.st = IF spawned THEN "running" ELSE "failed"]]
  /\ ra' = [ra EXCEPT ![i] = [NoRunApp EXCEPT !.promise = "pending",
                                              !.timer = "armed",
                                              !.startTime = elapsed]]
  /\ calls' = [calls EXCEPT ![i].run = @ + 1]
  /\ pc' = "serve_wait"
  /\ UNCHANGED <<orchVars, elapsed, localVars, serverProcess, thrown, ret, ws, sa,
                 browser>>

\* a stdout chunk that holds a whole ready line (a chunk that the handler
\* ignores leaves everything as it is and is no step)
StdoutMatch(k) ==
  /\ proc[k].st = "running"
  /\ proc[k].unwritten = <<>>
  /\ \E url \in Urls, d \in (IF AwaitingServe(k) THEN {StageMs} ELSE {0}) :
       LET handled == [OnData(ra[k], ReadyLine(url), d) EXCEPT
                         !.firstMatch = IF @ = 0 THEN url ELSE @] IN
       /\ handled # ra[k]
       /\ ra' = [ra EXCEPT ![k] = handled]
       /\ elapsed' = IF AwaitingServe(k) THEN ra[k].startTime + d ELSE elapsed
  /\ UNCHANGED <<orchVars, pc, localVars, serverProcess, thrown, ret, ws, proc, sa,
                 browser, calls>>

\* the pipe delivers the beginning of a ready line as a chunk of its own (the
\* stream is cut wherever the writes and reads of the two processes fall)
StdoutHead(k) ==
  /\ proc[k].st = "running"
  /\ proc[k].unwritten = <<>>
  /\ \E url \in Urls, d \in (IF AwaitingServe(k) THEN {StageMs} ELSE {0}) :
     \E c \in 1..(Len(ReadyLine(url)) - 1) :
       LET text == SubSeq(ReadyLine(url), 1, c) IN
       /\ ra' = [ra EXCEPT ![k] = OnData(@, text, d)]
       /\ proc' = [proc EXCEPT
                     ![k].written = text,
                     ![k].unwritten = SubSeq(ReadyLine(url), c + 1,
                                             Len(ReadyLine(url)))]
       /\ elapsed' = IF AwaitingServe(k) /\ ra'[k].promise = "fulfilled"
                     THEN ra[k].startTime + d ELSE elapsed
  /\ UNCHANGED <<orchVars, pc, localVars, serverProcess, thrown, ret, ws, sa,
                 browser, calls>>

\* the rest of that line arrives as the next chunk
StdoutTail(k) ==
  /\ proc[k].st = "running"
  /\ proc[k].unwritten # <<>>
  /\ \E d \in (IF AwaitingServe(k) THEN {StageMs} ELSE {0}) :
       LET text == proc[k].unwritten IN
       /\ ra' = [ra EXCEPT ![k] =
                   [OnData(@, text, d) EXCEPT
                      !.firstMatch =
                        IF @ = 0 THEN match(StripAnsi(proc[k].written \o text))
                        ELSE @]]
       /\ proc' = [proc EXCEPT ![k].written = <<>>, ![k].unwritten = <<>>]
       /\ elapsed' = IF AwaitingServe(k) /\ ra'[k].promise = "fulfilled"
                     THEN ra[k].startTime + d ELSE elapsed
  /\ UNCHANGED <<orchVars, pc, localVars, serverProcess, thrown, ret, ws, sa,
                 browser, calls>>

\* the 30 s timer fires (a failed spawn emits 'error' on the next tick, long
\* before it)
RunAppTimeout(k) ==
  /\ ra[k].timer = "armed"
  /\ proc[k].st # "failed"
  /\ \E honours \in BOOLEAN :
       proc' = IF ~ra[k].resolved
               THEN [proc EXCEPT ![k] = Kill(@, "SIGTERM", honours)]
               ELSE proc
  /\ ra' = [ra EXCEPT ![k] = OnTimeout(@)]
  /\ elapsed' = IF AwaitingServe(k) THEN ra[k].startTime + ServeTimeoutMs ELSE elapsed
  /\ UNCHANGED <<orchVars, pc, localVars, serverProcess, thrown, ret, ws, sa,
                 browser, calls>>

\* the 'error' event of a child that could not be spawned
ProcError(k) ==
  /\ proc[k].st = "failed"
  /\ proc' = [proc EXCEPT ![k].st = "errored"]
  /\ ra' = [ra EXCEPT ![k] = OnError(@)]
  /\ UNCHANGED <<orchVars, pc, elapsed, localVars, serverProcess, thrown, ret, ws,
                 sa, browser, calls>>

\* the child ends (on a signal or by itself) and 'exit' is emitted: the exit
\* handler of runApp and the exit listener of stopApp run
ProcExit(k) ==
  /\ proc[k].st = "running"
  /\ proc' = [proc EXCEPT ![k].st = "exited"]
  /\ ra' = [ra EXCEPT ![k] = OnExit(@)]
  /\ sa' = IF sa[k].listening /\ sa[k].promise = "pending"
           THEN [sa EXCEPT ![k].promise = "resolved"]
           ELSE sa
  /\ elapsed' = IF AwaitingServe(k) THEN ra[k].startTime + StageMs ELSE elapsed
  /\ UNCHANGED <<orchVars, pc, localVars, serverProcess, thrown, ret, ws, browser,
                 calls>>

\* step 3, second half: the await of runApp resumes
ServeResume ==
  /\ pc = "serve_wait"
  /\ ra[i].promise \in {"fulfilled", "rejected"}
  /\ IF ra[i].promise = "rejected"
     THEN /\ thrown' = ra[i].error
          /\ pc' = "exec_catch"
          /\ calls' = [calls EXCEPT ![i].serveOut = "threw"]
          /\ UNCHANGED <<runResult, serverProcess, ret>>
     ELSE LET rr == [success |-> TRUE, serverUrl |-> ra[i].serverUrl,
                     process |-> i, duration |-> ra[i].duration] IN
          /\ runResult' = rr
          /\ serverProcess' = rr.process
          /\ UNCHANGED thrown
          /\ calls' = [calls EXCEPT ![i].serveOut = IF rr.success THEN "ok" ELSE "fail",
                                    ![i].execOut = IF ServeFailed(rr) THEN "returned" ELSE @]
          /\ IF ServeFailed(rr)
             THEN /\ ret' = <<ServeFailedResult(runnersToRun[i], elapsed, buildResult,
                                                compileResult, rr)>>
                  /\ pc' = "returned"
             ELSE /\ pc' = "analyze"
                  /\ UNCHANGED ret
  /\ UNCHANGED <<orchVars, elapsed, buildResult, compileResult, npm, analyzeResult, ws,
                 proc, ra, sa, browser>>

\* mutant: a null handle is not recognised
stopApp_NoNullCheck(p, s, honours) ==
  IF p.killed
  THEN <<p, [s EXCEPT !.promise = "resolved", !.waited = 0]>>
  ELSE <<Kill(p, "SIGTERM", honours),
         [s EXCEPT !.promise = "pending", !.listening = TRUE, !.waited = 0]>>

\* stopApp up to its return of the promise: <<process, closure>> afterwards
stopApp(p, s, honours) ==
  IF p.st = "none" \/ p.killed
  THEN <<p, [s EXCEPT !.promise = "resolved", !.waited = 0]>>
  ELSE <<Kill(p, "SIGTERM", honours),
         [s EXCEPT !.promise = "pending", !.listening = TRUE, !.waited = 0]>>

\* the 5 s timer of stopApp fires while its promise is pending (a process that
\* honours the signal it was sent ends within the grace period, so its 'exit'
\* comes first).  The timer is never cleared, but a firing after 'exit' has
\* resolved the promise changes nothing: 'exit' follows a kill() that
\* succeeded, so killed is true and the second resolve() is void
StopAppTimer(k) ==
  /\ sa[k].promise = "pending"
  /\ ~(proc[k].st = "running" /\ proc[k].dying)
  /\ proc' = IF ~proc[k].killed
             THEN [proc EXCEPT ![k] = Kill(@, "SIGKILL", TRUE)]
             ELSE proc
  /\ sa' = [sa EXCEPT ![k].promise = "resolved", ![k].waited = StopGraceMs]
  /\ elapsed' = IF AwaitingStop(k) THEN elapsed + StopGraceMs ELSE elapsed
  /\ UNCHANGED <<orchVars, pc, localVars, serverProcess, thrown, ret, ws, ra,
                 browser, calls>>

\* ---------------------------------------------------------------------------
\* runSingleRunner: analyze, stop, cleanup, catch
\* ---------------------------------------------------------------------------
AnalyzeOutcomes == {"ok", "launchFail", "navFail", "stepFail", "closeThrows"}

\* console-error and page-error counts a page may produce
ErrorLoads == {<<1, 2>>}

\* the screenshot path of analyzeApp as its components; stamp stands for Date.now()
ScreenshotPath(testId, stamp) ==
  <<"results", "screenshots", testId \o "-" \o ToString(stamp) \o ".png">>

\* mutant: the catch block does not close the browser
analyzeApp_LeaksOnFailure(out, d, load, testId, stamp) ==
  [threw |-> out = "closeThrows",
   browser |-> CASE out = "launchFail" -> "none"
                 [] out = "ok" -> "closed"
                 [] OTHER -> "open",
   result |-> [success |-> out = "ok",
               duration |-> d,
               screenshotPath |-> IF out = "ok" THEN ScreenshotPath(testId, stamp)
                                  ELSE <<>>,
               consoleErrors |-> IF out = "launchFail" THEN 0 ELSE load[1],
               pageErrors |-> IF out = "launchFail" THEN 0 ELSE load[2]]]

\* analyzeApp: the result it returns (or that it throws) and the state its
\* browser instance is left in.  A failure after the launch closes the browser
\* in the catch block; if that close fails the exception leaves analyzeApp
analyzeApp(out, d, load, testId, stamp) ==
  [threw |-> out = "closeThrows",
   browser |-> CASE out = "launchFail" -> "none"
                 [] out = "closeThrows" -> "open"
                 [] OTHER -> "closed",
   result |-> [success |-> out = "ok",
               duration |-> d,
               screenshotPath |-> IF out = "ok" THEN ScreenshotPath(testId, stamp)
                                  ELSE <<>>,
               consoleErrors |-> IF out = "launchFail" THEN 0 ELSE load[1],
               pageErrors |-> IF out = "launchFail" THEN 0 ELSE load[2]]]

\* step 4: await analyzeApp(runResult.serverUrl, `${runnerId}-temp`, resultsDir)
Analyze ==
  /\ pc = "analyze"
  /\ \E out \in AnalyzeOutcomes, d \in {StageMs}, load \in ErrorLoads :
       LET a == analyzeApp(out, d, load, runnersToRun[i] \o "-temp", i) IN
       /\ browser' = [browser EXCEPT ![i] = a.browser]
       /\ elapsed' = elapsed + d
       /\ calls' = [calls EXCEPT ![i].analyze = @ + 1,
                                 ![i].analyzeOut = IF a.threw THEN "threw"
                                                   ELSE IF a.result.success THEN "ok"
                                                   ELSE "fail"]
       /\ IF a.threw
          THEN /\ thrown' = "browser close failed"
               /\ pc' = "exec_catch"
               /\ UNCHANGED analyzeResult
          ELSE /\ analyzeResult' = a.result
               /\ pc' = "stop"
               /\ UNCHANGED thrown
  /\ UNCHANGED <<orchVars, buildResult, compileResult, npm, runResult, serverProcess,
                 ret, ws, proc, ra, sa>>

\* step 5: if (serverProcess) await stopApp(serverProcess), up to the await
StopCall ==
  /\ pc = "stop"
  /\ IF serverProcess # 0
     THEN \E honours \in BOOLEAN :
          LET st == stopApp(proc[serverProcess], sa[serverProcess], honours) IN
          /\ proc' = [proc EXCEPT ![serverProcess] = st[1]]
          /\ sa' = [sa EXCEPT ![serverProcess] = st[2]]
          /\ calls' = [calls EXCEPT ![i].stop = @ + 1]
          /\ pc' = "stop_wait"
     ELSE /\ pc' = "cleanup"
          /\ UNCHANGED <<proc, sa, calls>>
  /\ UNCHANGED <<orchVars, elapsed, localVars, serverProcess, thrown, ret, ws, ra,
                 browser>>

\* mutant: step 5 does not wait for the promise of stopApp
StopResume_NoAwait ==
  /\ pc = "stop_wait"
  /\ calls' = [calls EXCEPT ![i].stopAwaited = @ + 1]
  /\ pc' = "cleanup"
  /\ UNCHANGED <<orchVars, elapsed, localVars, serverProcess, thrown, ret, ws, proc,
                 ra, sa, browser>>

\* step 5: the await of stopApp resumes
StopResume ==
  /\ pc = "stop_wait"
  /\ sa[serverProcess].promise = "resolved"
  /\ calls' = [calls EXCEPT ![i].stopAwaited = @ + 1]
  /\ pc' = "cleanup"
  /\ UNCHANGED <<orchVars, elapsed, localVars, serverProcess, thrown, ret, ws, proc,
                 ra, sa, browser>>

\* mutant: keepWorkspaces is not looked at
ShouldCleanup_IgnoresKeep(keep, runnerId, workspaceDir) ==
  RUNNERS[runnerId].cleanupWorkspace /\ workspaceDir # 0

\* if (!keepWorkspaces && runnerConfig.cleanupWorkspace && buildResult.workspaceDir)
ShouldCleanup(keep, runnerId, workspaceDir) ==
  ~keep /\ RUNNERS[runnerId].cleanupWorkspace /\ workspaceDir # 0

\* the result object is built, then step 6: workspace cleanup, then return
Cleanup ==
  /\ pc = "cleanup"
  /\ LET result == SuccessResult(runnersToRun[i], elapsed, buildResult,
                                 compileResult, runResult, analyzeResult) IN
     IF ShouldCleanup(keepWorkspaces, runnersToRun[i], buildResult.workspaceDir)
     THEN \E deleted \in BOOLEAN :
            IF deleted
            THEN /\ ws' = [ws EXCEPT ![buildResult.workspaceDir] = "deleted"]
                 /\ calls' = [calls EXCEPT ![i].cleanup = @ + 1,
                                           ![i].cleanupOut = "ok",
                                           ![i].execOut = "returned"]
                 /\ ret' = <<result>>
                 /\ pc' = "returned"
                 /\ UNCHANGED thrown
            ELSE /\ calls' = [calls EXCEPT ![i].cleanup = @ + 1,
                                           ![i].cleanupOut = "threw"]
                 /\ thrown' = "workspace deletion failed"
                 /\ pc' = "exec_catch"
                 /\ UNCHANGED <<ws, ret>>
     ELSE /\ calls' = [calls EXCEPT ![i].execOut = "returned"]
          /\ ret' = <<result>>
          /\ pc' = "returned"
          /\ UNCHANGED <<ws, thrown>>
  /\ UNCHANGED <<orchVars, elapsed, localVars, serverProcess, proc, ra, sa, browser>>

\* mutant: the catch block returns without stopping the server
ExecCatch_NoStop ==
  /\ pc = "exec_catch"
  /\ ret' = <<CatchResult(runnersToRun[i], elapsed, thrown)>>
  /\ calls' = [calls EXCEPT ![i].execOut = "returned"]
  /\ pc' = "returned"
  /\ UNCHANGED <<orchVars, elapsed, localVars, serverProcess, thrown, ws, proc, ra,
                 sa, browser>>

\* mutant: the catch block rethrows
ExecCatch_Rethrows ==
  /\ pc = "exec_catch"
  /\ calls' = [calls EXCEPT ![i].execOut = "threw"]
  /\ pc' = "orch_catch"
  /\ UNCHANGED <<orchVars, elapsed, localVars, serverProcess, thrown, ret, ws, proc,
                 ra, sa, browser>>

\* mutant: the catch block starts the pipeline again
ExecCatch_Retries ==
  /\ pc = "exec_catch"
  /\ pc' = "generate"
  /\ UNCHANGED <<orchVars, elapsed, localVars, serverProcess, thrown, ret, ws, proc,
                 ra, sa, browser, calls>>

\* the catch block: if (serverProcess) await stopApp(serverProcess), else the
\* failed result is returned at once
ExecCatch ==
  /\ pc = "exec_catch"
  /\ IF serverProcess # 0
     THEN \E honours \in BOOLEAN :
          LET st == stopApp(proc[serverProcess], sa[serverProcess], honours) IN
          /\ proc' = [proc EXCEPT ![serverProcess] = st[1]]
          /\ sa' = [sa EXCEPT ![serverProcess] = st[2]]
          /\ calls' = [calls EXCEPT ![i].stop = @ + 1]
          /\ pc' = "catch_stop_wait"
          /\ UNCHANGED ret
     ELSE /\ ret' = <<CatchResult(runnersToRun[i], elapsed, thrown)>>
          /\ calls' = [calls EXCEPT ![i].execOut = "returned"]
          /\ pc' = "returned"
          /\ UNCHANGED <<proc, sa>>
  /\ UNCHANGED <<orchVars, elapsed, localVars, serverProcess, thrown, ws, ra, browser>>

\* mutant: the catch block does not wait for the promise of stopApp
CatchResume_NoAwait ==
  /\ pc = "catch_stop_wait"
  /\ ret' = <<CatchResult(runnersToRun[i], elapsed, thrown)>>
  /\ calls' = [calls EXCEPT ![i].stopAwaited = @ + 1, ![i].execOut = "returned"]
  /\ pc' = "returned"
  /\ UNCHANGED <<orchVars, elapsed, localVars, serverProcess, thrown, ws, proc, ra,
                 sa, browser>>

\* the catch block after its await of stopApp
CatchResume ==
  /\ pc = "catch_stop_wait"
  /\ sa[serverProcess].promise = "resolved"
  /\ ret' = <<CatchResult(runnersToRun[i], elapsed, thrown)>>
  /\ calls' = [calls EXCEPT ![i].stopAwaited = @ + 1, ![i].execOut = "returned"]
  /\ pc' = "returned"
  /\ UNCHANGED <<orchVars, elapsed, localVars, serverProcess, thrown, ws, proc, ra,
                 sa, browser>>

\* ---------------------------------------------------------------------------
\* specification
\* ---------------------------------------------------------------------------
Next ==
  \/ StartBenchmark
  \/ InvokeRunner
  \/ RunnerThrows
  \/ Generate
  \/ Compile
  \/ RunAppSpawn
  \/ \E k \in Slots : StdoutMatch(k)
  \/ \E k \in Slots : RunAppTimeout(k)
  \/ \E k \in Slots : ProcError(k)
  \/ \E k \in Slots : ProcExit(k)
  \/ \E k \in Slots : StopAppTimer(k)
  \/ ServeResume
  \/ Analyze
  \/ StopCall
  \/ StopResume
  \/ Cleanup
  \/ ExecCatch
  \/ CatchResume
  \/ OrchReceive
  \/ OrchCatch
  \/ Summarize
  \/ MainPromptNotFound
  \/ MainConfigError
  \/ MainExit

Spec == Init /\ [][Next]_vars

\* ---------------------------------------------------------------------------
\* invocations whose filter names as many items as there are runners
\* ---------------------------------------------------------------------------
\* --filter values of that length made of valid ids (parseRunnerFilter does
\* not remove repetitions), and one it rejects
RepeatFilters == [1..Len(allRunners) -> {"sigrid", " claude"}] \cup {<<"bogus">>}

InitRepeat ==
  /\ legacyRunner = "sigrid"
  /\ filter \in RepeatFilters
  /\ keepWorkspaces = FALSE
  /\ apiKey = TRUE
  /\ now = Clock[1]
  /\ Started

SpecRepeat == InitRepeat /\ [][Next]_vars

\* ---------------------------------------------------------------------------
\* the command run more than once for the same appName
\* ---------------------------------------------------------------------------
\* the command is started again at a later instant: a new process, with the
\* files of the earlier invocations on disk.  benchmarkDir and metadata stand
\* for the directory the running invocation computes from its own `now`:
\* they are kept when the new instant yields the same path (mkdir with
\* recursive: true accepts an existing directory) and are a fresh directory
\* otherwise
Reinvoke ==
  /\ pc \in {"exit0", "exit1"}
  /\ \E n \in 1..Len(Clock) :
       /\ \E m \in 1..(n - 1) : Clock[m] = now
       /\ now' = Clock[n]
       /\ IF BenchmarkPath(dateStr(Clock[n]), appName)
               = BenchmarkPath(dateStr(now), appName)
          THEN UNCHANGED <<benchmarkDir, metadata>>
          ELSE /\ benchmarkDir' = NoBenchmarkDir
               /\ metadata' = <<>>
  /\ pc' = "start"
  /\ runnersToRun' = <<>>
  /\ i' = 1
  /\ results' = <<>>
  /\ elapsed' = 0
  /\ buildResult' = NoBuild
  /\ compileResult' = NoCompile
  /\ npm' = NoNpm
  /\ runResult' = NoRun
  /\ analyzeResult' = NoAnalyze
  /\ serverProcess' = 0
  /\ thrown' = ""
  /\ ret' = <<>>
  /\ ws' = [k \in Slots |-> "none"]
  /\ proc' = [k \in Slots |-> NoProc]
  /\ ra' = [k \in Slots |-> NoRunApp]
  /\ sa' = [k \in Slots |-> NoStopApp]
  /\ browser' = [k \in Slots |-> "none"]
  /\ calls' = [k \in Slots |-> NoCalls]
  /\ UNCHANGED <<filter, keepWorkspaces, apiKey, legacyVars>>

\* invocations that select at most one runner
InitSingle ==
  /\ legacyRunner = "sigrid"
  /\ filter \in {<<"sigrid">>, <<" claude">>, <<"bogus">>}
  /\ keepWorkspaces = FALSE
  /\ apiKey = TRUE
  /\ now = Clock[1]
  /\ Started

NextRerun == Next \/ Reinvoke

SpecRerun == InitSingle /\ [][NextRerun]_vars

\* ---------------------------------------------------------------------------
\* a dev server whose ready line reaches the parent in two chunks
\* ---------------------------------------------------------------------------
NextChunks ==
  \/ Next
  \/ \E k \in Slots : StdoutHead(k)
  \/ \E k \in Slots : StdoutTail(k)

SpecChunks == InitSingle /\ [][NextChunks]_vars

\* ---------------------------------------------------------------------------
\* progress
\* ---------------------------------------------------------------------------
\* what the event loop does by itself once it can: synchronous code, and the
\* awaits that the program bounds (exec of npm with its timeout option,
\* page.goto with its timeout, the file operations)
ControlStep ==
  \/ StartBenchmark
  \/ InvokeRunner
  \/ Compile
  \/ RunAppSpawn
  \/ ServeResume
  \/ Analyze
  \/ StopCall
  \/ StopResume
  \/ Cleanup
  \/ ExecCatch
  \/ CatchResume
  \/ OrchReceive
  \/ OrchCatch
  \/ Summarize
  \/ MainConfigError
  \/ MainExit

\* timers that are armed fire, a failed spawn emits 'error', and a process
\* that a signal ends does end
TimerStep ==
  \E k \in Slots :
    \/ RunAppTimeout(k)
    \/ StopAppTimer(k)
    \/ ProcError(k)
    \/ proc[k].dying /\ ProcExit(k)

\* nothing is assumed of the code generator, of what the dev server prints
\* and of when it exits by itself
LiveSpec ==
  /\ InitSingle
  /\ [][Next]_vars
  /\ WF_vars(ControlStep)
  /\ WF_vars(TimerStep)

\* ---------------------------------------------------------------------------
\* the legacy single-runner runBenchmark
\* ---------------------------------------------------------------------------
TestPrompt(id) == [id |-> id, prompt |-> "prompt of " \o id]

\* the `prompts` argument: a string, an array of TestPrompts (one per position
\* of the loop at most), or neither
PromptInputs ==
  {[kind |-> "string", items |-> <<>>], [kind |-> "other", items |-> <<>>]}
  \cup {[kind |-> "array",
         items |-> [k \in 1..n |-> TestPrompt("p" \o ToString(k))]] :
          n \in Slots}

\* promptsToRun of a string or an array
Normalize(prompts) ==
  IF prompts.kind = "string" THEN <<TestPrompt("custom")>> ELSE prompts.items

\* a FullBenchmarkResult; absent parts are <<>>, "" and 0
LegacyResult(tp, success, error, wsd, build, compile, run, analyze) ==
  [id |-> tp.id, prompt |-> tp.prompt, success |-> success, error |-> error,
   workspaceDir |-> wsd, build |-> build, compile |-> compile, run |-> run,
   analyze |-> analyze]

\* mutant: the analysis does not count
overallSuccess_IgnoresAnalyze(b, c, r, a) == b.success /\ c.success /\ r.success

\* const overallSuccess = build.success && compile.success && run.success &&
\* analyze.success
overallSuccess(b, c, r, a) == b.success /\ c.success /\ r.success /\ a.success

\* what no step of the legacy runBenchmark changes
legacyFixed == <<filter, keepWorkspaces, apiKey, now, legacyRunner, runnersToRun,
                 benchmarkDir, metadata, elapsed, thrown, ret>>

\* results.push(r) and the end of the iteration: its block-scoped locals are gone
LegacyContinue(r) ==
  /\ results' = PushResult(results, r)
  /\ i' = i + 1
  /\ pc' = "l_loop"
  /\ buildResult' = NoBuild
  /\ compileResult' = NoCompile
  /\ npm' = NoNpm
  /\ runResult' = NoRun
  /\ analyzeResult' = NoAnalyze

\* the runner lookup, the normalisation of prompts and mkdir of resultsDir
LegacyStart ==
  /\ pc = "start"
  /\ IF legacyRunner \notin DOMAIN RUNNERS
     THEN /\ pc' = "l_threw"
          /\ UNCHANGED promptsToRun
     ELSE \E prompts \in PromptInputs :
            IF prompts.kind = "other"
            THEN /\ pc' = "l_threw"
                 /\ UNCHANGED promptsToRun
            ELSE /\ promptsToRun' = Normalize(prompts)
                 /\ pc' = "l_loop"
  /\ UNCHANGED <<legacyFixed, runningProcesses, summary, i, results, localVars,
                 serverProcess, ws, proc, ra, sa, browser, calls>>

\* loop head with i < promptsToRun.length
LegacyInvoke ==
  /\ pc = "l_loop"
  /\ i <= Len(promptsToRun)
  /\ pc' = "l_generate"
  /\ serverProcess' = 0
  /\ calls' = [calls EXCEPT ![i].exec = @ + 1]
  /\ UNCHANGED <<legacyFixed, promptsToRun, runningProcesses, summary, i, results,
                 localVars, ws, proc, ra, sa, browser>>

\* steps 1-3: await runnerConfig.runBenchmark(testPrompt.prompt, model); an
\* exception goes to the catch of the iteration
LegacyGenerate ==
  /\ pc = "l_generate"
  /\ \E out \in GenOutcomesOf(legacyRunner, apiKey) :
     \E d \in (IF out \in {"createThrows", "populateThrows"} THEN {StageMs} ELSE Durs) :
       LET g == runBenchmark(out, d, i)
           tp == promptsToRun[i] IN
       /\ ws' = IF g.created THEN [ws EXCEPT ![i] = "exists"] ELSE ws
       /\ calls' = [calls EXCEPT ![i].gen = @ + 1,
                                 ![i].genOut = IF g.threw THEN "threw"
                                               ELSE IF g.result.success THEN "ok"
                                               ELSE "fail"]
       /\ IF g.threw
          THEN LegacyContinue(LegacyResult(tp, FALSE, g.message, 0,
                                           [NoBuild EXCEPT !.workspaceDir = 0],
                                           <<>>, <<>>, <<>>))
          ELSE IF GenerationFailed(g.result)
          THEN LegacyContinue(LegacyResult(tp, FALSE, "", g.result.workspaceDir,
                                           g.result, <<>>, <<>>, <<>>))
          ELSE /\ buildResult' = g.result
               /\ pc' = "l_compile"
               /\ UNCHANGED <<i, results, compileResult, npm, runResult, analyzeResult>>
  /\ UNCHANGED <<legacyFixed, promptsToRun, runningProcesses, summary, serverProcess,
                 proc, ra, sa, browser>>

\* step 4: await compileApp(benchmarkResult.workspaceDir)
LegacyCompile ==
  /\ pc = "l_compile"
  /\ \E hasNodeModules \in BOOLEAN, out \in CompileOutcomes, d \in {StageMs},
        lens \in OutputLens :
       LET c == compileApp(hasNodeModules, out, d, lens)
           cr == c.result
           tp == promptsToRun[i] IN
       /\ calls' = [calls EXCEPT ![i].compile = @ + 1,
                                 ![i].compileOut = IF cr.success THEN "ok" ELSE "fail"]
       /\ IF CompilationFailed(cr)
          THEN LegacyContinue(LegacyResult(tp, FALSE, "", buildResult.workspaceDir,
                                           buildResult, cr, <<>>, <<>>))
          ELSE /\ compileResult' = cr
               /\ npm' = [hasNodeModules |-> hasNodeModules, commands |-> c.commands]
               /\ pc' = "l_serve"
               /\ UNCHANGED <<i, results, buildResult, runResult, analyzeResult>>
  /\ UNCHANGED <<legacyFixed, promptsToRun, runningProcesses, summary, serverProcess,
                 ws, proc, ra, sa, browser>>

\* step 5, first half: runApp spawns the dev server
LegacyRunAppSpawn ==
  /\ pc = "l_serve"
  /\ \E spawned \in BOOLEAN :
       proc' = [proc EXCEPT ![i] = [NoProc EXCEPT
                                      !.st = IF spawned THEN "running" ELSE "failed"]]
  /\ ra' = [ra EXCEPT ![i] = [NoRunApp EXCEPT !.promise = "pending",
                                              !.timer = "armed",
                                              !.startTime = elapsed]]
  /\ calls' = [calls EXCEPT ![i].run = @ + 1]
  /\ pc' = "l_serve_wait"
  /\ UNCHANGED <<legacyFixed, promptsToRun, runningProcesses, summary, i, results,
                 localVars, serverProcess, ws, sa, browser>>

\* step 5, second half: the await of runApp resumes; the process is tracked
\* only when the promise was fulfilled, a rejection is caught into a failed
\* runResult
LegacyServeResume ==
  /\ pc = "l_serve_wait"
  /\ ra[i].promise \in {"fulfilled", "rejected"}
  /\ IF ra[i].promise = "fulfilled"
     THEN LET rr == [success |-> TRUE, serverUrl |-> ra[i].serverUrl,
                     process |-> i, duration |-> ra[i].duration] IN
          /\ runResult' = rr
          /\ serverProcess' = rr.process
          /\ runningProcesses' =
               IF serverProcess' # 0
               THEN Append(runningProcesses,
                           [id |-> promptsToRun[i].id, process |-> serverProcess'])
               ELSE runningProcesses
          /\ calls' = [calls EXCEPT ![i].serveOut = "ok"]
     ELSE /\ runResult' = NoRun
          /\ calls' = [calls EXCEPT ![i].serveOut = "threw"]
          /\ UNCHANGED <<serverProcess, runningProcesses>>
  /\ pc' = "l_analyze"
  /\ UNCHANGED <<legacyFixed, promptsToRun, summary, i, results, buildResult,
                 compileResult, npm, analyzeResult, ws, proc, ra, sa, browser>>

\* step 6 and the push of the result: analyzeApp only if the server started, an
\* exception of analyzeApp is caught into a failed analyzeResult
LegacyAnalyze ==
  /\ pc = "l_analyze"
  /\ LET tp == promptsToRun[i]
         run == [success |-> runResult.success, serverUrl |-> runResult.serverUrl,
                 duration |-> runResult.duration,
                 error |-> IF runResult.success THEN "" ELSE ra[i].error]
         full(ar) == LegacyResult(tp, overallSuccess(buildResult, compileResult,
                                                     runResult, ar),
                                  "", buildResult.workspaceDir, buildResult,
                                  compileResult, run, ar)
     IN IF runResult.success
        THEN \E out \in AnalyzeOutcomes, d \in {StageMs}, load \in ErrorLoads :
               LET a == analyzeApp(out, d, load, tp.id, i)
                   ar == IF a.threw THEN NoAnalyze ELSE a.result IN
               /\ browser' = [browser EXCEPT ![i] = a.browser]
               /\ calls' = [calls EXCEPT ![i].analyze = @ + 1,
                                         ![i].analyzeOut = IF a.threw THEN "threw"
                                                           ELSE IF a.result.success
                                                           THEN "ok" ELSE "fail"]
               /\ LegacyContinue(full(ar))
        ELSE /\ LegacyContinue(full(NoAnalyze))
             /\ UNCHANGED <<browser, calls>>
  /\ UNCHANGED <<legacyFixed, promptsToRun, runningProcesses, summary, serverProcess,
                 ws, proc, ra, sa>>

\* the loop over the prompts is over; i becomes the cursor of the loop over
\* runningProcesses
LegacyLoopExit ==
  /\ pc = "l_loop"
  /\ i > Len(promptsToRun)
  /\ pc' = "l_stop"
  /\ i' = 1
  /\ UNCHANGED <<legacyFixed, promptsToRun, runningProcesses, summary, results,
                 localVars, serverProcess, ws, proc, ra, sa, browser, calls>>

\* for (const { id, process } of runningProcesses) await stopApp(process), up
\* to the await; after the loop i becomes the cursor of the loop over results
LegacyStopCall ==
  /\ pc = "l_stop"
  /\ IF i <= Len(runningProcesses)
     THEN \E honours \in BOOLEAN :
          LET p == runningProcesses[i].process
              st == stopApp(proc[p], sa[p], honours) IN
          /\ serverProcess' = p
          /\ proc' = [proc EXCEPT ![p] = st[1]]
          /\ sa' = [sa EXCEPT ![p] = st[2]]
          /\ calls' = [calls EXCEPT ![p].stop = @ + 1]
          /\ pc' = "l_stop_wait"
          /\ UNCHANGED i
     ELSE /\ pc' = "l_cleanup"
          /\ i' = 1
          /\ UNCHANGED <<serverProcess, proc, sa, calls>>
  /\ UNCHANGED <<legacyFixed, promptsToRun, runningProcesses, summary, results,
                 localVars, ws, ra, browser>>

\* the await of stopApp resumes
LegacyStopResume ==
  /\ pc = "l_stop_wait"
  /\ sa[serverProcess].promise = "resolved"
  /\ calls' = [calls EXCEPT ![serverProcess].stopAwaited = @ + 1]
  /\ i' = i + 1
  /\ pc' = "l_stop"
  /\ UNCHANGED <<legacyFixed, promptsToRun, runningProcesses, summary, results,
                 localVars, serverProcess, ws, proc, ra, sa, browser>>

\* if (!keepWorkspaces && runnerConfig.cleanupWorkspace): one iteration of the
\* loop over results, a failed deletion is a warning
LegacyCleanup ==
  /\ pc = "l_cleanup"
  /\ IF ~keepWorkspaces /\ RUNNERS[legacyRunner].cleanupWorkspace /\ i <= Len(results)
     THEN /\ IF results[i].workspaceDir # 0
             THEN \E deleted \in BOOLEAN :
                    /\ ws' = IF deleted
                             THEN [ws EXCEPT ![results[i].workspaceDir] = "deleted"]
                             ELSE ws
                    /\ calls' = [calls EXCEPT
                                   ![i].cleanup = @ + 1,
                                   ![i].cleanupOut = IF deleted THEN "ok" ELSE "threw"]
             ELSE UNCHANGED <<ws, calls>>
          /\ i' = i + 1
          /\ UNCHANGED pc
     ELSE /\ pc' = "l_save"
          /\ UNCHANGED <<i, ws, calls>>
  /\ UNCHANGED <<legacyFixed, promptsToRun, runningProcesses, summary, results,
                 localVars, serverProcess, proc, ra, sa, browser>>

\* the summary is built and written, runBenchmark returns
LegacySave ==
  /\ pc = "l_save"
  /\ LET successCount == Len(Filter(results, TRUE)) IN
     summary' = <<[runner |-> legacyRunner,
                   totalPrompts |-> Len(results),
                   successCount |-> successCount,
                   failureCount |-> Len(results) - successCount,
                   keepWorkspaces |-> keepWorkspaces,
                   results |-> results]>>
  /\ pc' = "l_done"
  /\ UNCHANGED <<legacyFixed, promptsToRun, runningProcesses, i, results, localVars,
                 serverProcess, ws, proc, ra, sa, browser, calls>>

InitLegacy ==
  /\ legacyRunner \in {"sigrid", "bogus"}
  /\ filter = <<>>
  /\ keepWorkspaces \in BOOLEAN
  /\ apiKey = TRUE
  /\ now = Clock[1]
  /\ Started

NextLegacy ==
  \/ LegacyStart
  \/ LegacyInvoke
  \/ LegacyGenerate
  \/ LegacyCompile
  \/ LegacyRunAppSpawn
  \/ \E k \in Slots : StdoutMatch(k)
  \/ \E k \in Slots : RunAppTimeout(k)
  \/ \E k \in Slots : ProcError(k)
  \/ \E k \in Slots : ProcExit(k)
  \/ \E k \in Slots : StopAppTimer(k)
  \/ LegacyServeResume
  \/ LegacyAnalyze
  \/ LegacyLoopExit
  \/ LegacyStopCall
  \/ LegacyStopResume
  \/ LegacyCleanup
  \/ LegacySave

SpecLegacy == InitLegacy /\ [][NextLegacy]_vars

\* ---------------------------------------------------------------------------
\* properties
\* ---------------------------------------------------------------------------
\* position k of the loop has handed a result to the orchestrator
Recorded(k) == k <= Len(results)

\* runSingleRunner has returned at position k
Returned(k) == calls[k].execOut = "returned"

\* C1: when the summary step is reached, results (and metadata.runners) holds
\* exactly one entry per selected runner, entry k is what the k-th
\* runSingleRunner call returned (or the synthetic result if it threw), and
\* the entries are in the order of runnersToRun.
C1_OneResultPerSelectedRunner ==
  /\ pc = "loop" => Len(results) = i - 1
  /\ (pc = "loop" /\ i > 1) =>
       results[i - 1] = IF calls[i - 1].execOut = "threw"
                        THEN SyntheticResult(runnersToRun[i - 1], thrown)
                        ELSE ret[1]
  /\ \A k \in 1..Len(results) : results[k].runner = runnersToRun[k]
  /\ pc = "done" =>
       /\ Len(results) = Len(runnersToRun)
       /\ Len(metadata[1].runners) = Len(runnersToRun)
       /\ \A k \in 1..Len(runnersToRun) :
            /\ metadata[1].runners[k].runner = runnersToRun[k]
            /\ metadata[1].runners[k].success = results[k].success
            /\ metadata[1].runners[k].totalDuration = results[k].totalDuration

C1_Witness ==
  /\ pc = "done"
  /\ Len(runnersToRun) = 2
  /\ metadata[1].runners[1].success
  /\ ~metadata[1].runners[2].success
  /\ calls[2].execOut = "returned"

\* C2: a failed or throwing runner never keeps the later runners from being
\* run: when the loop is over every selected position was invoked exactly
\* once, and an exception out of runSingleRunner is recorded as a result with
\* success=false and the exception message as error.
C2_FailureDoesNotStopTheLoop ==
  /\ \A k \in 1..Len(runnersToRun) :
       (k < i \/ pc = "done") => calls[k].exec = 1
  /\ \A k \in 1..Len(results) :
       calls[k].execOut = "threw" =>
         /\ ~results[k].success
         /\ results[k].error = "executor fault"
         /\ results[k].runner = runnersToRun[k]

C2_Witness ==
  /\ pc = "done"
  /\ Len(runnersToRun) = 2
  /\ calls[1].execOut = "threw"
  /\ results[1].error = "executor fault"
  /\ calls[2].exec = 1
  /\ calls[2].gen = 1

\* C3: on every path on which runApp resolved with a process handle, stopApp
\* was invoked on it and its promise awaited before runSingleRunner returns,
\* also when analyzeApp fails or throws and when the cleanup throws.
C3_StopAfterServe ==
  \A k \in Slots :
    (Returned(k) /\ calls[k].serveOut = "ok") =>
      /\ calls[k].stop >= 1
      /\ calls[k].stopAwaited = calls[k].stop
      /\ sa[k].promise = "resolved"

C3_Witness ==
  \E k \in Slots :
    /\ Returned(k)
    /\ calls[k].serveOut = "ok"
    /\ calls[k].analyzeOut = "threw"
    /\ calls[k].stopAwaited = 1

\* C4 (as claimed): whenever runSingleRunner has returned, the dev server
\* spawned by its runApp call has exited.
C4_NoProcessOutlivesRunner ==
  \A k \in Slots : Returned(k) => proc[k].st # "running"

\* C5 (as claimed): with keepWorkspaces=false the workspace of a runner was
\* passed to cleanupWorkspace before runSingleRunner returns, whatever state
\* the executor reached.
C5_CleanupOnEveryPath ==
  \A k \in Slots :
    (~keepWorkspaces /\ Returned(k) /\ ws[k] # "none") => calls[k].cleanup >= 1

\* C6 (as claimed): if cleanupWorkspace throws after all stages completed, the
\* result keeps success=true and its stage durations.
C6_CleanupFailureNotEscalated ==
  \A k \in 1..Len(results) :
    (calls[k].analyzeOut = "ok" /\ calls[k].cleanupOut = "threw") =>
      /\ results[k].success
      /\ results[k].durations.codeGeneration > 0
      /\ results[k].durations.analysis > 0

\* C7: with keepWorkspaces=true cleanupWorkspace is never invoked and no
\* workspace is deleted, for succeeding and failing runners alike.
C7_KeepWorkspaces ==
  keepWorkspaces => \A k \in Slots : calls[k].cleanup = 0 /\ ws[k] # "deleted"

C7_Witness ==
  /\ keepWorkspaces
  /\ pc = "done"
  /\ Len(results) = 2
  /\ results[1].success
  /\ ~results[2].success
  /\ ws[1] = "exists"
  /\ ws[2] = "exists"

\* C8 (as claimed): a stage runs only if the previous one succeeded, and the
\* result has success=true only when generation, compile, serve and analyze
\* all reported success=true.
C8_SuccessOnlyIfAllStagesSucceeded ==
  \A k \in Slots :
    /\ calls[k].compile > 0 => calls[k].genOut = "ok"
    /\ calls[k].run > 0 => calls[k].compileOut = "ok"
    /\ calls[k].analyze > 0 => calls[k].serveOut = "ok"
    /\ (Recorded(k) /\ results[k].success) =>
         /\ calls[k].genOut = "ok"
         /\ calls[k].compileOut = "ok"
         /\ calls[k].serveOut = "ok"
         /\ calls[k].analyzeOut = "ok"

\* C9: after a failed compile stage runApp and analyzeApp are never invoked
\* for that runner, no server process exists (nothing to stop), and the
\* result has serverStartup and analysis durations 0.
C9_CompileFailureSkipsServeAndAnalyze ==
  \A k \in Slots :
    calls[k].compileOut = "fail" =>
      /\ calls[k].run = 0
      /\ calls[k].analyze = 0
      /\ calls[k].stop = 0
      /\ proc[k].st = "none"
      /\ Recorded(k) =>
           /\ ~results[k].success
           /\ results[k].durations.serverStartup = 0
           /\ results[k].durations.analysis = 0

C9_Witness ==
  \E k \in 1..Len(results) :
    /\ calls[k].compileOut = "fail"
    /\ results[k].error = "Compilation failed"
    /\ results[k].durations.compilation > 0

\* C10 (as claimed): of the ready-pattern match, the 30 s timeout, 'error' and
\* 'exit', at most one executes its resolution branch per runApp call.
C10_ExactlyOneResolutionPath ==
  \A k \in Slots : Cardinality(ra[k].fired) <= 1

\* C11: when the 30000 ms timer of runApp fires before any ready line, the
\* serve stage fails with the error "Server startup timeout (30s)" (it
\* contains "timeout"), the server process has been sent the kill signal,
\* analyzeApp is never invoked for that runner, and the runner's result has
\* success=false, 30000 ms or more after the start.
C11_ServeTimeoutFails ==
  \A k \in Slots :
    "timeout" \in ra[k].fired =>
      /\ ra[k].promise = "rejected"
      /\ ra[k].error = "Server startup timeout (30s)"
      /\ proc[k].killed
      /\ "SIGTERM" \in proc[k].sigs
      /\ calls[k].serveOut \in {"none", "threw"}
      /\ calls[k].analyze = 0
      /\ Recorded(k) =>
           /\ ~results[k].success
           /\ results[k].error = "Server startup timeout (30s)"
           /\ results[k].totalDuration >= ServeTimeoutMs

C11_Witness ==
  \E k \in 1..Len(results) :
    /\ ra[k].fired = {"timeout"}
    /\ proc[k].killed
    /\ results[k].error = "Server startup timeout (30s)"
    /\ results[k].totalDuration = ra[k].startTime + ServeTimeoutMs

\* C12 (as claimed): when the 5 s grace timer of stopApp resolves its promise
\* while the process is still running, the process has been sent SIGKILL.
C12_ForcefulKillAfterGrace ==
  \A k \in Slots :
    (sa[k].promise = "resolved" /\ sa[k].waited = StopGraceMs
       /\ proc[k].st = "running") => "SIGKILL" \in proc[k].sigs

\* C13: stopApp on a null handle resolves at once and touches nothing; on a
\* process that has already exited and on a handle it was already called on
\* its promise is never rejected, can always still resolve while it is
\* pending, and resolves at most 5000 ms after the call.
C13_StopIdempotent ==
  /\ \A h \in BOOLEAN :
       /\ stopApp(NoProc, NoStopApp, h)[1] = NoProc
       /\ stopApp(NoProc, NoStopApp, h)[2].promise = "resolved"
  /\ \A k \in Slots :
       /\ sa[k].promise \in {"none", "pending", "resolved"}
       /\ calls[k].stop > 0 => sa[k].promise # "none"
       /\ sa[k].promise = "pending" => ENABLED (StopAppTimer(k) \/ ProcExit(k))
       /\ sa[k].promise = "resolved" => sa[k].waited <= StopGraceMs
       /\ (calls[k].stop = 2 /\ proc[k].killed /\ sa[k].promise = "resolved") =>
            sa[k].waited = 0

C13_Witness ==
  \E k \in Slots :
    /\ calls[k].stop = 2
    /\ calls[k].stopAwaited = 2
    /\ proc[k].st = "exited"
    /\ ~proc[k].killed
    /\ sa[k].waited = StopGraceMs
    /\ Returned(k)

\* C14: whenever analyzeApp has returned a result, on success and on a
\* failure alike, a browser instance that was launched has been closed.
C14_BrowserClosed ==
  \A k \in Slots :
    /\ calls[k].analyzeOut \in {"ok", "fail"} => browser[k] \in {"none", "closed"}
    /\ calls[k].analyzeOut = "ok" => browser[k] = "closed"

C14_Witness ==
  \E k \in Slots :
    /\ calls[k].analyzeOut = "fail"
    /\ browser[k] = "closed"
    /\ Returned(k)

\* C15: runApp is fulfilled by the first ready line the process prints (if it
\* comes before the timeout), whether or not the process has exited; the
\* serverUrl of its result is the url of that first line, and no later ready
\* line changes it.
C15_FirstMatchWins ==
  \A k \in Slots :
    /\ (ra[k].firstMatch # 0 /\ "timeout" \notin ra[k].fired) =>
         /\ ra[k].promise = "fulfilled"
         /\ ra[k].fired = {"match"}
    /\ ra[k].promise = "fulfilled" =>
         /\ ra[k].firstMatch \in Urls
         /\ ra[k].serverUrl = ra[k].firstMatch
    /\ (k = i /\ calls[k].serveOut = "ok") => runResult.serverUrl = ra[k].firstMatch

C15_Witness ==
  \E k \in Slots :
    /\ k = i
    /\ pc = "analyze"
    /\ proc[k].st = "running"
    /\ ra[k].firstMatch = 5174
    /\ runResult.serverUrl = 5174

\* C16: once runApp is fulfilled its timer is cancelled, so runApp sends no
\* signal to the server; the process handle is what the caller holds, and a
\* signal reaches the process only after the caller invoked stopApp.
C16_RunAppNeverKillsStartedServer ==
  \A k \in Slots :
    ra[k].promise = "fulfilled" =>
      /\ ra[k].timer = "cleared"
      /\ proc[k].sigs # {} => calls[k].stop >= 1
      /\ proc[k].killed => calls[k].stop >= 1
      /\ (k = i /\ calls[k].serveOut = "ok") =>
           /\ runResult.process = k
           /\ serverProcess = k

C16_Witness ==
  \E k \in Slots :
    /\ ra[k].promise = "fulfilled"
    /\ ra[k].timer = "cleared"
    /\ calls[k].stop = 1
    /\ proc[k].sigs = {"SIGTERM"}
    /\ proc[k].st = "exited"

\* C17: when 'exit' or 'error' is the first event of a runApp call, the stage
\* is rejected with an error that is not the timeout error, the 30 s timer is
\* cancelled, and the runner's failed result comes less than 30000 ms after
\* the start of the stage.
C17_PrematureExitFailsAtOnce ==
  \A k \in Slots :
    ra[k].fired \in {{"exit"}, {"error"}} =>
      /\ ra[k].promise = "rejected"
      /\ ra[k].error \in {"Server exited with code", "spawn error"}
      /\ ra[k].error # "Server startup timeout (30s)"
      /\ ra[k].timer = "cleared"
      /\ calls[k].analyze = 0
      /\ Recorded(k) =>
           /\ ~results[k].success
           /\ results[k].error = ra[k].error
           /\ results[k].totalDuration < ra[k].startTime + ServeTimeoutMs

C17_Witness ==
  \E k \in 1..Len(results) :
    /\ ra[k].fired = {"exit"}
    /\ ra[k].timer = "cleared"
    /\ results[k].error = "Server exited with code"

\* C18: compileApp runs `npm install` iff node_modules is absent; after a
\* failed install the result is success=false with error "npm install failed"
\* and `npm run build` was not run; the build runs only as the last command,
\* after the install was skipped or succeeded.
C18_InstallThenBuild ==
  compileResult.duration > 0 =>
    /\ Includes(npm.commands, "npm install") <=> ~npm.hasNodeModules
    /\ npm.commands \in {<<"npm install">>, <<"npm run build">>,
                         <<"npm install", "npm run build">>}
    /\ compileResult.error = "npm install failed" <=> npm.commands = <<"npm install">>
    /\ compileResult.error = "npm install failed" => ~compileResult.success
    /\ compileResult.success =>
         /\ Includes(npm.commands, "npm run build")
         /\ compileResult.installNeeded <=> ~npm.hasNodeModules

C18_Witness ==
  /\ pc = "returned"
  /\ ~npm.hasNodeModules
  /\ npm.commands = <<"npm install">>
  /\ compileResult.error = "npm install failed"
  /\ ret[1].error = "Compilation failed"

\* C19 (as claimed): the stdout and stderr excerpts of every CompileResult
\* are at most 500 characters long.
C19_DiagnosticsTruncated ==
  /\ compileResult.stdout <= MaxExcerpt
  /\ compileResult.stderr <= MaxExcerpt

\* C20: in the persisted summary fastestRunner is the id of a result with
\* success=true and fastestTime is that result's totalDuration, which no
\* successful result undercuts; both are null iff no result has success=true.
C20_FastestIsSuccessful ==
  pc = "done" =>
    LET s == metadata[1].summary
        ok == {k \in 1..Len(results) : results[k].success} IN
    /\ s.fastestRunner = <<>> <=> ok = {}
    /\ s.fastestTime = <<>> <=> ok = {}
    /\ ok # {} =>
         /\ \E k \in ok : /\ results[k].runner = s.fastestRunner[1]
                          /\ results[k].totalDuration = s.fastestTime[1]
         /\ \A k \in ok : results[k].totalDuration >= s.fastestTime[1]

C20_Witness ==
  /\ pc = "done"
  /\ Len(results) = 2
  /\ ~results[1].success
  /\ results[2].success
  /\ results[1].totalDuration < results[2].totalDuration
  /\ metadata[1].summary.fastestRunner = <<results[2].runner>>
  /\ metadata[1].summary.fastestTime = <<results[2].totalDuration>>

\* C21: fastestRunner is the first, in iteration order, of the successful
\* results with the least totalDuration, and fastestTime is that duration;
\* failed results, whatever their duration, are never chosen.
C21_FastestIsFirstMinimum ==
  metadata # <<>> =>
    LET s == metadata[1].summary
        ok == {k \in 1..Len(results) : results[k].success} IN
    ok # {} =>
      \E b \in ok :
        /\ \A j \in ok :
             \/ results[b].totalDuration < results[j].totalDuration
             \/ results[b].totalDuration = results[j].totalDuration /\ b <= j
        /\ s.fastestRunner = <<results[b].runner>>
        /\ s.fastestTime = <<results[b].totalDuration>>

C21_Witness ==
  /\ metadata # <<>>
  /\ Len(results) = 2
  /\ results[1].success
  /\ results[2].success
  /\ results[1].totalDuration = results[2].totalDuration
  /\ results[1].runner # results[2].runner
  /\ metadata[1].summary.fastestRunner = <<results[1].runner>>

\* C22: in the persisted metadata document successfulRunners + failedRunners
\* = totalRunners = the number of entries of runners, and successfulRunners is
\* the number of entries with success=true.
C22_SummaryCounts ==
  metadata # <<>> =>
    LET s == metadata[1].summary
        rn == metadata[1].runners IN
    /\ s.successfulRunners + s.failedRunners = s.totalRunners
    /\ s.totalRunners = Len(rn)
    /\ s.successfulRunners = Cardinality({k \in 1..Len(rn) : rn[k].success})
    /\ s.failedRunners = Cardinality({k \in 1..Len(rn) : ~rn[k].success})

C22_Witness ==
  /\ metadata # <<>>
  /\ metadata[1].summary.totalRunners = 2
  /\ metadata[1].summary.successfulRunners = 1
  /\ metadata[1].summary.failedRunners = 1
  /\ metadata[1].runners[1].success
  /\ ~metadata[1].runners[2].success

\* C23: when the filter holds an id that is not in the registry, nothing is
\* ever started: the benchmark directory is not created, no runner is
\* invoked, no workspace exists and no metadata is written; the run ends in
\* the configuration error.
C23_UnknownRunnerIsFatal ==
  (\E k \in 1..Len(filter) : ~Includes(allRunners, Trim(filter[k]))) =>
    /\ pc \in {"start", "configError", "exit1"}
    /\ runnersToRun = <<>>
    /\ benchmarkDir = NoBenchmarkDir
    /\ metadata = <<>>
    /\ results = <<>>
    /\ \A k \in Slots : calls[k] = NoCalls /\ ws[k] = "none"

C23_Witness ==
  /\ pc = "configError"
  /\ Len(filter) > 0
  /\ ~benchmarkDir.created
  /\ \A k \in Slots : calls[k].gen = 0

\* C24: runners run one after the other: nothing of a later position has
\* started, and every earlier position has handed over its result, has no
\* await of runApp or stopApp pending, and has done its workspace cleanup
\* when it succeeded and workspaces are not kept.
C24_StrictlySequential ==
  \A k \in Slots :
    /\ k > i => calls[k] = NoCalls /\ proc[k] = NoProc /\ ws[k] = "none"
    /\ (k = i /\ pc = "loop") => calls[k] = NoCalls /\ proc[k] = NoProc
    /\ k < i =>
         /\ Recorded(k)
         /\ calls[k].execOut \in {"returned", "threw"}
         /\ ra[k].promise # "pending"
         /\ sa[k].promise # "pending"
         /\ calls[k].stopAwaited = calls[k].stop
         /\ (results[k].success /\ ~keepWorkspaces) => ws[k] = "deleted"

C24_Witness ==
  /\ i = 2
  /\ pc = "compile"
  /\ results[1].success
  /\ ws[1] = "deleted"
  /\ sa[1].promise = "resolved"
  /\ benchmarkDir.files # {}

C26_GenerateNeverThrows ==
  \A k \in Slots : calls[k].genOut # "threw"

\* C27: the CLI exits with code 0 only after a run in which every result has
\* success=true, and with code 1 only when a result has success=false or no
\* metadata was produced (an orchestration error).
C27_ExitCode ==
  /\ pc = "exit0" =>
       /\ metadata # <<>>
       /\ \A k \in 1..Len(results) : results[k].success
  /\ pc = "exit1" =>
       \/ metadata = <<>>
       \/ \E k \in 1..Len(results) : ~results[k].success
  /\ pc = "done" => ENABLED MainExit

C27_Witness ==
  /\ pc = "exit0"
  /\ Len(results) = 2
  /\ metadata[1].summary.failedRunners = 0

\* C28 (as claimed): without the API credential and with an API-backed runner
\* selected, no benchmark directory is created, no runner is invoked and no
\* per-runner result is recorded.
C28_MissingCredentialIsFatal ==
  (/\ ~apiKey
   /\ parseRunnerFilter(filter, allRunners)[1]
   /\ \E r \in ApiBacked : Includes(parseRunnerFilter(filter, allRunners)[2], r)) =>
    /\ ~benchmarkDir.created
    /\ results = <<>>
    /\ \A k \in Slots : calls[k].exec = 0

\* C29: nothing is retried: per position runSingleRunner, generation,
\* compileApp, runApp and analyzeApp are invoked at most once and no npm
\* command is run twice, and a position whose executor returned had its
\* generation invoked exactly once.
C29_NoRetry ==
  /\ \A k \in Slots :
       /\ calls[k].exec <= 1
       /\ calls[k].gen <= 1
       /\ calls[k].compile <= 1
       /\ calls[k].run <= 1
       /\ calls[k].analyze <= 1
       /\ Returned(k) => calls[k].gen = 1
  /\ Len(npm.commands) <= 2
  /\ Len(npm.commands) = 2 => npm.commands[1] # npm.commands[2]

C29_Witness ==
  \E k \in 1..Len(results) :
    /\ pc = "done"
    /\ calls[k].cleanupOut = "threw"
    /\ ~results[k].success
    /\ calls[k].gen = 1
    /\ calls[k].compile = 1
    /\ calls[k].run = 1
    /\ calls[k].analyze = 1

\* C30: within a runner a stage starts only after the previous one has
\* completed: compile after generation, runApp after compile, analyzeApp
\* after runApp is fulfilled, stopApp after analyzeApp, and the workspace
\* cleanup only after the promise of stopApp has resolved.
C30_StagesOrdered ==
  /\ \A k \in Slots :
       /\ calls[k].compile > 0 => calls[k].genOut = "ok"
       /\ calls[k].run > 0 => calls[k].compileOut = "ok"
       /\ calls[k].analyze > 0 =>
            calls[k].serveOut = "ok" /\ ra[k].promise = "fulfilled"
       /\ calls[k].stop > 0 => calls[k].analyzeOut # "none"
       /\ calls[k].cleanup > 0 => calls[k].stopAwaited >= 1
       /\ ws[k] = "deleted" => calls[k].stopAwaited >= 1
  /\ pc = "cleanup" =>
       /\ serverProcess = i
       /\ sa[i].promise = "resolved"
       /\ calls[i].cleanup = 0

C30_Witness ==
  \E k \in Slots :
    /\ ws[k] = "deleted"
    /\ calls[k].stopAwaited = 1
    /\ sa[k].promise = "resolved"
    /\ proc[k].st = "exited"
    /\ Returned(k)

\* C31: a failure to copy a runner's screenshot is only a warning: the runner's
\* result stays in results and metadata.runners with success unchanged, no
\* synthetic failed result is added for it, and the remaining runners run.
C31_CopyFailureTolerated ==
  \A k \in 1..Len(results) :
    calls[k].copyOut = "threw" =>
      /\ results[k].success
      /\ results[k].error = ""
      /\ calls[k].execOut = "returned"
      /\ pc = "loop" => Len(results) = i - 1
      /\ pc \in {"done", "exit0", "exit1"} =>
           /\ Len(metadata[1].runners) = Len(runnersToRun)
           /\ metadata[1].runners[k].success
           /\ metadata[1].runners[k].runner = runnersToRun[k]
           /\ \A j \in (k + 1)..Len(runnersToRun) : calls[j].exec = 1

C31_Witness ==
  /\ pc = "done"
  /\ calls[1].copyOut = "threw"
  /\ benchmarkDir.files = {}
  /\ metadata[1].runners[1].success
  /\ Len(metadata[1].runners) = 2
  /\ calls[2].gen = 1

\* C35 (as claimed): when the serve stage fails, the result has the error
\* "Server startup failed", keeps the durations of generation and compile,
\* has analysis duration 0 and has workspaceDir set.
C35_ServeFailureResult ==
  \A k \in 1..Len(results) :
    calls[k].serveOut \in {"fail", "threw"} =>
      /\ results[k].error = "Server startup failed"
      /\ results[k].durations.codeGeneration > 0
      /\ results[k].durations.compilation > 0
      /\ results[k].durations.analysis = 0
      /\ results[k].workspaceDir = k

\* C36 (as claimed): a workspace that exists when runSingleRunner has returned
\* is named by the workspaceDir of the returned result, on every path.
C36_RetainedWorkspaceLocatable ==
  \A k \in 1..Len(results) :
    (Returned(k) /\ ws[k] = "exists") => results[k].workspaceDir = k
\* C32 (as claimed): within one invocation no two results are copied to the
\* same file of the benchmark directory, for every filter that validation
\* accepts.
C32_ScreenshotsCollisionFree ==
  \A j, k \in 1..Len(results) :
    (j < k /\ calls[j].copyOut = "ok" /\ calls[k].copyOut = "ok") =>
      copyScreenshot(runnersToRun[j], dateStr(now))
        # copyScreenshot(runnersToRun[k], dateStr(now))
\* C33 (as claimed): an invocation writes its metadata.json to a path no
\* earlier invocation wrote: a record that is on disk is never replaced by a
\* later invocation for the same appName.
C33_RecordNeverOverwritten ==
  [][(metadata # <<>> /\ BenchmarkPath(dateStr(now'), appName)
                          = BenchmarkPath(dateStr(now), appName))
       => metadata' = metadata]_vars
\* C34 (as claimed): if what the server has written to stdout before the
\* timeout, taken as one text, contains a ready line, runApp is fulfilled with
\* the url of that line, however the text was cut into chunks.
C34_ReadyLineInAnyChunking ==
  \A k \in Slots :
    (ra[k].firstMatch # 0 /\ "timeout" \notin ra[k].fired) =>
      /\ ra[k].promise = "fulfilled"
      /\ ra[k].serverUrl = ra[k].firstMatch
\* C37 (as claimed): runSingleRunner eventually returns, whatever the external
\* processes do: every wait of the pipeline is bounded by a timeout.
C37_RunnerEventuallyReturns ==
  (pc = "generate") ~> (pc \in {"returned", "orch_catch"})
\* C38: in the legacy runBenchmark every prompt yields exactly one result, in
\* prompt order, also when a stage fails or throws; a result has success=true
\* iff generation, compile, serve and analyze all succeeded; and the summary
\* has successCount + failureCount = totalPrompts = the number of prompts.
C38_LegacyOneResultPerPrompt ==
  /\ pc = "l_loop" => Len(results) = i - 1
  /\ pc \in {"l_stop", "l_stop_wait", "l_cleanup", "l_save", "l_done"} =>
       Len(results) = Len(promptsToRun)
  /\ pc \in {"l_loop", "l_stop", "l_stop_wait", "l_cleanup", "l_save", "l_done"} =>
       \A k \in 1..Len(results) :
         /\ results[k].id = promptsToRun[k].id
         /\ results[k].prompt = promptsToRun[k].prompt
         /\ calls[k].exec = 1
         /\ results[k].success <=>
              /\ calls[k].genOut = "ok"
              /\ calls[k].compileOut = "ok"
              /\ calls[k].serveOut = "ok"
              /\ calls[k].analyzeOut = "ok"
  /\ pc = "l_done" =>
       /\ summary[1].totalPrompts = Len(promptsToRun)
       /\ summary[1].successCount + summary[1].failureCount = summary[1].totalPrompts
       /\ summary[1].successCount
            = Cardinality({k \in 1..Len(results) : results[k].success})
       /\ summary[1].results = results

C38_Witness ==
  /\ pc = "l_done"
  /\ Len(promptsToRun) = 2
  /\ calls[1].genOut = "threw"
  /\ ~summary[1].results[1].success
  /\ summary[1].results[2].success
  /\ summary[1].successCount = 1
  /\ summary[1].failureCount = 1

\* C39 (as claimed): in the legacy runBenchmark every dev-server process that
\* runApp spawned, one whose startup timed out included, has been passed to
\* stopApp and awaited before a workspace is deleted and before the summary
\* file is written.
C39_LegacyServersStoppedFirst ==
  \A k \in Slots :
    (/\ proc[k].st \in {"running", "exited"}
     /\ pc \in {"l_cleanup", "l_save", "l_done"}
     /\ (\E j \in Slots : ws[j] = "deleted") \/ summary # <<>>) =>
      /\ calls[k].stop >= 1
      /\ calls[k].stopAwaited = calls[k].stop
====
